---- MODULE Spec2Model ----
(***************************************************************************)
(* N-Queens game: the Board (occupancy grid, legality, evaluation) and the *)
(* three search engines of the repository:                                 *)
(*   "alphabeta" : src/alphabeta/board.py + src/alphabeta/alphabeta.py     *)
(*   "minimax"   : src/minimax/board.py   + src/minimax/minimax.py         *)
(*   "nqueens"   : src/minimax/board.py   + src/nqueens/minimax.py         *)
(* (the nqueens directory holds no board.py of its own; its engine reads   *)
(* the same Board fields and methods as the minimax engine).               *)
(* The recursive searches are unfolded into an explicit call stack so that *)
(* the states between "make move" and "undo move" are states of the model. *)
(***************************************************************************)
EXTENDS Integers, Sequences, FiniteSets, TLC

\* ---------------------------------------------------------------- bounds
MaxSize == 4
MaxDepth == 1
MaxGridSize == 3
MaxGridQueens == 4
MaxHints == 1
MaxBoardSize == 32

\* ------------------------------------------------------ program constants
DefaultDepth == 4
InitialDepthVar == 4
GuiMinSize == 4
MinimaxDepth == 3
PosInf == 1000000
NegInf == -1000000
SolvedScore == 1000
DeadEndScore == -1000

Variants == {"alphabeta", "minimax", "nqueens"}
NoMove == <<>>
NoSize == 0

Max2(a, b) == IF a >= b THEN a ELSE b
Min2(a, b) == IF a <= b THEN a ELSE b

\* ------------------------------------------------------------------ Board
Range(n) == 0 .. (n - 1)
Cells(n) == Range(n) \X Range(n)

\* np.zeros((size, size))
Zeros(n) == [c \in Cells(n) |-> 0]

\* np.sum(self.board)
Sum(b, n) == Cardinality({c \in Cells(n) : b[c] = 1})

\* Board.is_safe: occupied test, row/column scan, then the scan of the
\* whole grid for cells on the two diagonals through (row, col).
IsSafeOneDiagonal(b, n, row, col) ==
    IF b[<<row, col>>] = 1 THEN FALSE
    ELSE IF \E i \in Range(n) : b[<<row, i>>] = 1 \/ b[<<i, col>>] = 1 THEN FALSE
    ELSE IF \E i \in Range(n) : \E j \in Range(n) :
                /\ i - j = row - col
                /\ b[<<i, j>>] = 1
         THEN FALSE
    ELSE TRUE

IsSafe(b, n, row, col) ==
    IF b[<<row, col>>] = 1 THEN FALSE
    ELSE IF \E i \in Range(n) : b[<<row, i>>] = 1 \/ b[<<i, col>>] = 1 THEN FALSE
    ELSE IF \E i \in Range(n) : \E j \in Range(n) :
                /\ (i + j = row + col) \/ (i - j = row - col)
                /\ b[<<i, j>>] = 1
         THEN FALSE
    ELSE TRUE

\* Board.get_safe_positions: for i, for j, append (i, j) when empty and safe.
\* SafeInRow is the inner loop from column j on, SafeFrom the outer loop
\* from row i on.
RECURSIVE SafeInRow(_, _, _, _)
SafeInRow(b, n, i, j) ==
    IF j >= n THEN <<>>
    ELSE (IF b[<<i, j>>] = 0 /\ IsSafe(b, n, i, j) THEN << <<i, j>> >> ELSE <<>>)
         \o SafeInRow(b, n, i, j + 1)

RECURSIVE SafeFrom(_, _, _)
SafeFrom(b, n, i) ==
    IF i >= n THEN <<>>
    ELSE SafeInRow(b, n, i, 0) \o SafeFrom(b, n, i + 1)

GetSafePositionsColMajor(b, n) ==
    LET s == SafeFrom([c \in Cells(n) |-> b[<<c[2], c[1]>>]], n, 0)
    IN  [k \in 1 .. Len(s) |-> <<s[k][2], s[k][1]>>]

GetSafePositions(b, n) == SafeFrom(b, n, 0)

\* Board.evaluate of src/alphabeta/board.py (constructive heuristic).
EvaluateABNoDeadEnd(b, n, ql) ==
    LET queens_placed == n - ql
        safe_positions == Len(GetSafePositions(b, n))
    IN  IF queens_placed = n THEN SolvedScore
        ELSE queens_placed * 10 + safe_positions

EvaluateAB(b, n, ql) ==
    LET queens_placed == n - ql
        safe_positions == Len(GetSafePositions(b, n))
    IN  IF queens_placed = n THEN SolvedScore
        ELSE IF safe_positions = 0 /\ queens_placed < n THEN DeadEndScore
        ELSE queens_placed * 10 + safe_positions

\* Board.evaluate of src/minimax/board.py (conflict counting): rows, columns
\* and diagonals of both orientations (offsets -(n-1) .. n-1) holding more
\* than one queen.
EvaluateMM(b, n) ==
    LET rowCount(r) == Cardinality({c \in Range(n) : b[<<r, c>>] = 1})
        colCount(c) == Cardinality({r \in Range(n) : b[<<r, c>>] = 1})
        diagCount(k) == Cardinality({c \in Cells(n) : c[2] - c[1] = k /\ b[c] = 1})
        antiCount(k) ==
            Cardinality({c \in Cells(n) : c[2] - c[1] = k /\ b[<<c[1], n - 1 - c[2]>>] = 1})
        Offsets == (1 - n) .. (n - 1)
    IN  Cardinality({r \in Range(n) : rowCount(r) > 1})
        + Cardinality({c \in Range(n) : colCount(c) > 1})
        + Cardinality({k \in Offsets : diagCount(k) > 1})
        + Cardinality({k \in Offsets : antiCount(k) > 1})

\* Board.is_game_over: queens_left == 0 (alphabeta), np.sum(board) == size
\* (minimax).
IsGameOverAB(ql) == ql = 0
IsGameOverMM(b, n) == Sum(b, n) = n

\* ----------------------------------------------------------------- state
VARIABLES
    variant,      \* which of the three programs is running
    size,         \* Board.size
    board,        \* Board.board
    queens_left,  \* Board.queens_left
    max_depth,    \* AlphaBetaAI.max_depth
    stack,        \* call stack of get_best_move and the recursive search
    phase,        \* "idle", or where the innermost call stands: "apply" / "undo"
    ret,          \* value returned by the search call that returned last (0: none pending)
    last,         \* the call or step that produced the current state
    depth_var,    \* NQueensGUI.depth_var, the value of the depth control
    nodes_evaluated  \* AlphaBetaAI.nodes_evaluated

vars == <<variant, size, board, queens_left, max_depth, stack, phase, ret, last,
          depth_var, nodes_evaluated>>

\* A record of one call or step; the fields an operation does not use keep
\* these values.  Four fields are carried from step to step:
\*   placed    : place_queen calls that returned True since the board was
\*               constructed or reset
\*   click     : how the latest on_board_click went ("none" before the first)
\*   gbm_calls : get_best_move calls made by GUI handlers since that click
\*   ai_placed : queens placed by make_ai_move since that click
EventRec(op, placed, click, gbm_calls, ai_placed) ==
    [op |-> op, cell |-> NoMove, ok |-> FALSE, value |-> 0, move |-> NoMove,
     arg |-> NoSize, pre_size |-> size, pre_board |-> board, pre_ql |-> queens_left,
     depth |-> 0, maxing |-> FALSE, alpha0 |-> 0, beta0 |-> 0,
     moves |-> <<>>, scores |-> <<>>, pruned |-> FALSE, calls |-> 0, nodes |-> 0,
     placed |-> placed, click |-> click, gbm_calls |-> gbm_calls,
     ai_placed |-> ai_placed]

Event(op) == EventRec(op, last.placed, last.click, last.gbm_calls, last.ai_placed)

\* Board.__init__(size); AlphaBetaAI(board) / MinimaxAI(board).
Init ==
    /\ variant \in Variants
    /\ size \in 1 .. MaxSize
    /\ board = Zeros(size)
    /\ queens_left = size
    /\ max_depth = DefaultDepth
    /\ stack = <<>>
    /\ phase = "idle"
    /\ ret = 0
    /\ last = EventRec("init", 0, "none", 0, 0)
    /\ depth_var = InitialDepthVar
    /\ nodes_evaluated = 0

\* ------------------------------------------------------- Board operations
\* Board.reset(size=None); NoSize stands for the omitted argument.  Of the
\* state before the call the record keeps the size only.
ResetKeepsQueensLeft(new_size) ==
    /\ phase = "idle"
    /\ LET n == IF new_size # NoSize THEN new_size ELSE size
       IN  /\ size' = n
           /\ board' = Zeros(n)
           /\ queens_left' = queens_left
    /\ last' = [Event("reset") EXCEPT !.arg = new_size, !.placed = 0,
                                     !.pre_board = board', !.pre_ql = queens_left']
    /\ UNCHANGED <<variant, max_depth, stack, phase, ret, depth_var, nodes_evaluated>>

Reset(new_size) ==
    /\ phase = "idle"
    /\ LET n == IF new_size # NoSize THEN new_size ELSE size
       IN  /\ size' = n
           /\ board' = Zeros(n)
           /\ queens_left' = n
    /\ last' = [Event("reset") EXCEPT !.arg = new_size, !.placed = 0,
                                     !.pre_board = board', !.pre_ql = queens_left']
    /\ UNCHANGED <<variant, max_depth, stack, phase, ret, depth_var, nodes_evaluated>>

\* Board.place_queen(row, col)
PlaceQueenUnchecked(row, col) ==
    /\ phase = "idle"
    /\ board' = [board EXCEPT ![<<row, col>>] = 1]
    /\ queens_left' = queens_left - 1
    /\ last' = [Event("place_queen") EXCEPT !.cell = <<row, col>>, !.ok = TRUE,
                                           !.placed = @ + 1]
    /\ UNCHANGED <<variant, size, max_depth, stack, phase, ret, depth_var, nodes_evaluated>>

PlaceQueen(row, col) ==
    /\ phase = "idle"
    /\ IF IsSafe(board, size, row, col)
       THEN /\ board' = [board EXCEPT ![<<row, col>>] = 1]
            /\ queens_left' = queens_left - 1
            /\ last' = [Event("place_queen") EXCEPT !.cell = <<row, col>>, !.ok = TRUE,
                                                   !.placed = @ + 1]
       ELSE /\ UNCHANGED <<board, queens_left>>
            /\ last' = [Event("place_queen") EXCEPT !.cell = <<row, col>>, !.ok = FALSE]
    /\ UNCHANGED <<variant, size, max_depth, stack, phase, ret, depth_var, nodes_evaluated>>

\* Board.is_safe(row, col) called from outside the search.
IsSafeCall(row, col) ==
    /\ phase = "idle"
    /\ last' = [Event("is_safe") EXCEPT !.cell = <<row, col>>,
                                        !.ok = IsSafe(board, size, row, col)]
    /\ UNCHANGED <<variant, size, board, queens_left, max_depth, stack, phase, ret,
                   depth_var, nodes_evaluated>>

\* Board.get_safe_positions() called from outside the search.
GetSafePositionsCall ==
    /\ phase = "idle"
    /\ variant = "alphabeta"
    /\ last' = [Event("get_safe_positions") EXCEPT !.moves = GetSafePositions(board, size)]
    /\ UNCHANGED <<variant, size, board, queens_left, max_depth, stack, phase, ret,
                   depth_var, nodes_evaluated>>

\* Board.evaluate() called from outside the search.
Evaluate(v, b, n, ql) == IF v = "alphabeta" THEN EvaluateAB(b, n, ql) ELSE EvaluateMM(b, n)

EvaluateCall ==
    /\ phase = "idle"
    /\ last' = [Event("evaluate") EXCEPT !.value = Evaluate(variant, board, size, queens_left)]
    /\ UNCHANGED <<variant, size, board, queens_left, max_depth, stack, phase, ret,
                   depth_var, nodes_evaluated>>

\* Board.is_game_over() called from outside the search.
IsGameOver(v, b, n, ql) == IF v = "alphabeta" THEN IsGameOverAB(ql) ELSE IsGameOverMM(b, n)

IsGameOverCall ==
    /\ phase = "idle"
    /\ last' = [Event("is_game_over") EXCEPT
                  !.ok = IsGameOver(variant, board, size, queens_left)]
    /\ UNCHANGED <<variant, size, board, queens_left, max_depth, stack, phase, ret,
                   depth_var, nodes_evaluated>>

\* The depth scale moved to new_depth (it sets depth_var), then
\* NQueensGUI.update_ai_depth: self.ai.max_depth = depth_var.get()
\* (alphabeta only).
UpdateAiDepth(new_depth) ==
    /\ phase = "idle"
    /\ variant = "alphabeta"
    /\ depth_var' = new_depth
    /\ max_depth' = new_depth
    /\ last' = [Event("update_ai_depth") EXCEPT !.arg = new_depth]
    /\ UNCHANGED <<variant, size, board, queens_left, stack, phase, ret, nodes_evaluated>>

\* ---------------------------------------------------------- search engine
\* One activation of get_best_move (kind "root") or of alpha_beta_search /
\* minimax (kind "search"): its arguments, its locals, and the board as it
\* was when the activation started (snap, snap_ql).
\*   moves, idx : the list being iterated (safe_positions / valid_moves)
\*   i, j       : the next cell of the nested for-loops of minimax
\*   cur        : the move made and not yet undone
\*   best       : max_eval / min_eval / best_score
\*   pruned     : a pruning break was taken in this activation or below it
\*   calls      : search calls made by this activation and below it, itself
\*                included when it is a search call
\*   ctx        : (root only) the caller of get_best_move; for make_ai_move
\*                the click being handled, whether its place_queen returned
\*                True, and the board before it
NoCtx == [origin |-> "api", cell |-> NoMove, ok |-> FALSE,
          pre_board |-> <<>>, pre_ql |-> 0]

Frame(kind, depth, alpha, beta, maxing, moves) ==
    [kind |-> kind, depth |-> depth, alpha |-> alpha, beta |-> beta,
     maxing |-> maxing, moves |-> moves, idx |-> 1, i |-> 0, j |-> 0,
     cur |-> NoMove,
     best |-> IF kind = "root" \/ maxing THEN NegInf ELSE PosInf,
     best_move |-> NoMove, scores |-> <<>>, pruned |-> FALSE,
     alpha0 |-> alpha, beta0 |-> beta, snap |-> board, snap_ql |-> queens_left,
     calls |-> 0, ctx |-> NoCtx]

Top == stack[Len(stack)]
Pop == SubSeq(stack, 1, Len(stack) - 1)

\* The depth get_best_move passes to the search: self.max_depth, or the 3 of
\* the two minimax engines.
RootDepth == IF variant = "alphabeta" THEN max_depth ELSE MinimaxDepth

\* The first cell at or after (i, j), in the order of the nested loops, that
\* is empty and safe; NoMove when the loops run out.
RECURSIVE NextSafeAnyEmpty(_, _, _, _)
NextSafeAnyEmpty(b, n, i, j) ==
    IF i >= n THEN NoMove
    ELSE IF j >= n THEN NextSafeAnyEmpty(b, n, i + 1, 0)
    ELSE IF b[<<i, j>>] = 0 THEN <<i, j>>
    ELSE NextSafeAnyEmpty(b, n, i, j + 1)

RECURSIVE NextSafe(_, _, _, _)
NextSafe(b, n, i, j) ==
    IF i >= n THEN NoMove
    ELSE IF j >= n THEN NextSafe(b, n, i + 1, 0)
    ELSE IF b[<<i, j>>] = 0 /\ IsSafe(b, n, i, j) THEN <<i, j>>
    ELSE NextSafe(b, n, i, j + 1)

\* Whether the loop of the innermost activation has another move to make,
\* and which.
UsesList(f) == f.kind = "root" \/ variant = "alphabeta"

NextMove(f) ==
    IF UsesList(f)
    THEN (IF f.idx <= Len(f.moves) THEN f.moves[f.idx] ELSE NoMove)
    ELSE NextSafe(board, size, f.i, f.j)

\* The test at the head of alpha_beta_search / minimax that returns
\* board.evaluate() at once.
IsTerminal(v, b, n, ql, depth) ==
    IF v = "alphabeta"
    THEN depth = 0 \/ IsGameOverAB(ql) \/ GetSafePositions(b, n) = <<>>
    ELSE depth = 0 \/ Sum(b, n) = n

\* self.nodes_evaluated = 0 at the start of AlphaBetaAI.get_best_move and
\* self.nodes_evaluated += 1 at the start of alpha_beta_search; the minimax
\* engines keep no counter.
ResetCounterForgotten(v, nodes) == nodes

ResetCounter(v, nodes) == IF v = "alphabeta" THEN 0 ELSE nodes

CountNode(v, nodes) == IF v = "alphabeta" THEN nodes + 1 ELSE nodes

\* get_best_move, up to its loop: collect the safe positions; return None
\* when there are none.
\* Called on grid b with ql queens left, by ctx; ev is the record of the
\* caller's steps so far, which is the record left when the call returns
\* None at once.  A call made by a GUI handler is counted in gbm_calls.
CallGetBestMove(ctx, b, ql, ev) ==
    /\ LET valid_moves == GetSafePositions(b, size)
           called == [ev EXCEPT !.gbm_calls = IF ctx.origin = "api" THEN @ ELSE @ + 1]
       IN  IF valid_moves = <<>>
           THEN /\ last' = [called EXCEPT !.nodes = ResetCounter(variant, nodes_evaluated)]
                /\ UNCHANGED <<stack, phase>>
           ELSE /\ stack' = <<[Frame("root", RootDepth, NegInf, PosInf, TRUE, valid_moves)
                                EXCEPT !.ctx = ctx, !.snap = b, !.snap_ql = ql]>>
                /\ phase' = "apply"
                /\ last' = [called EXCEPT !.op = "get_best_move_start",
                                          !.pre_board = b, !.pre_ql = ql]
    /\ nodes_evaluated' = ResetCounter(variant, nodes_evaluated)

GetBestMove ==
    /\ phase = "idle"
    /\ CallGetBestMove(NoCtx, board, queens_left, Event("get_best_move"))
    /\ UNCHANGED <<variant, size, board, queens_left, max_depth, ret, depth_var>>

\* Make move: set the cell (alphabeta: and decrement queens_left), then call
\* the search one level down.  A call that meets its terminal test returns
\* board.evaluate() within this step; otherwise its activation is pushed.
MakeMove ==
    /\ phase = "apply"
    /\ LET f == Top
           m == NextMove(f)
       IN  /\ m # NoMove
           /\ LET b2 == [board EXCEPT ![m] = 1]
                  ql2 == IF variant = "alphabeta" THEN queens_left - 1 ELSE queens_left
                  d == IF f.kind = "root" THEN f.depth ELSE f.depth - 1
                  mx == IF f.kind = "root" THEN FALSE ELSE ~f.maxing
                  caller == [stack EXCEPT ![Len(stack)].cur = m]
                  ev == [Event("make_move") EXCEPT !.cell = m, !.depth = d, !.maxing = mx]
              IN  /\ board' = b2
                  /\ queens_left' = ql2
                  /\ IF IsTerminal(variant, b2, size, ql2, d)
                     THEN /\ ret' = Evaluate(variant, b2, size, ql2)
                          /\ stack' = [caller EXCEPT ![Len(stack)].calls = @ + 1]
                          /\ phase' = "undo"
                          /\ last' = [ev EXCEPT !.ok = TRUE, !.value = ret']
                     ELSE /\ ret' = ret
                          /\ stack' = Append(caller,
                                 [Frame("search", d, f.alpha, f.beta, mx,
                                        IF variant = "alphabeta"
                                        THEN GetSafePositions(b2, size) ELSE <<>>)
                                  EXCEPT !.snap = b2, !.snap_ql = ql2, !.calls = 1])
                          /\ phase' = "apply"
                          /\ last' = ev
    /\ nodes_evaluated' = CountNode(variant, nodes_evaluated)
    /\ UNCHANGED <<variant, size, max_depth, depth_var>>

\* Board.place_queen as a function: the grid, queens_left and the result.
PlaceQueenResultKeepsQueensLeft(b, n, ql, row, col) ==
    IF IsSafe(b, n, row, col)
    THEN [board |-> [b EXCEPT ![<<row, col>>] = 1], queens_left |-> ql, ok |-> TRUE]
    ELSE [board |-> b, queens_left |-> ql, ok |-> FALSE]

PlaceQueenResult(b, n, ql, row, col) ==
    IF IsSafe(b, n, row, col)
    THEN [board |-> [b EXCEPT ![<<row, col>>] = 1], queens_left |-> ql - 1, ok |-> TRUE]
    ELSE [board |-> b, queens_left |-> ql, ok |-> FALSE]

\* The rest of make_ai_move once get_best_move has returned move: nothing
\* when it is None, else board.place_queen(row, col).
AiPlacement(b, n, ql, move) ==
    IF move = NoMove THEN [board |-> b, queens_left |-> ql, ok |-> FALSE]
    ELSE PlaceQueenResult(b, n, ql, move[1], move[2])

\* The counter of the engine once get_best_move has returned to origin: a
\* GUI keeps its engine; a call made on an engine built for it leaves none
\* behind (0, as AlphaBetaAI.__init__ sets it for the next one).
EngineKept(origin, nodes) == IF origin = "api" THEN 0 ELSE nodes

\* The loop of the innermost activation has run out: the search returns
\* max_eval / min_eval to its caller, get_best_move returns best_move.  A
\* get_best_move called by make_ai_move returns into that handler, which
\* places the move and ends the on_board_click that started it.
Return ==
    /\ phase = "apply"
    /\ LET f == Top
           result == [Event("get_best_move") EXCEPT
                        !.move = f.best_move, !.value = f.best,
                        !.moves = f.moves, !.scores = f.scores,
                        !.depth = f.depth, !.pruned = f.pruned, !.calls = f.calls,
                        !.nodes = nodes_evaluated,
                        !.pre_board = f.snap, !.pre_ql = f.snap_ql]
       IN  /\ NextMove(f) = NoMove
           /\ stack' = IF f.kind = "root" THEN Pop
                       ELSE [Pop EXCEPT ![Len(stack) - 1].pruned = @ \/ f.pruned,
                                        ![Len(stack) - 1].calls = @ + f.calls]
           /\ IF f.kind = "root" /\ f.ctx.origin = "click"
              THEN LET p == AiPlacement(board, size, queens_left, f.best_move)
                   IN  /\ phase' = "idle"
                       /\ ret' = 0
                       /\ board' = p.board
                       /\ queens_left' = p.queens_left
                       /\ UNCHANGED nodes_evaluated
                       /\ last' = [result EXCEPT
                                     !.op = "on_board_click", !.cell = f.ctx.cell,
                                     !.ok = f.ctx.ok, !.pre_board = f.ctx.pre_board,
                                     !.pre_ql = f.ctx.pre_ql,
                                     !.placed = IF p.ok THEN @ + 1 ELSE @,
                                     !.ai_placed = IF p.ok THEN @ + 1 ELSE @]
              ELSE IF f.kind = "root"
              THEN /\ phase' = "idle"
                   /\ ret' = 0
                   /\ last' = result
                   /\ nodes_evaluated' = EngineKept(f.ctx.origin, nodes_evaluated)
                   /\ UNCHANGED <<board, queens_left>>
              ELSE /\ phase' = "undo"
                   /\ ret' = f.best
                   /\ last' = [Event("search") EXCEPT
                                 !.value = f.best, !.depth = f.depth,
                                 !.maxing = f.maxing,
                                 !.alpha0 = f.alpha0, !.beta0 = f.beta0,
                                 !.pruned = f.pruned,
                                 !.pre_board = f.snap, !.pre_ql = f.snap_ql]
                   /\ UNCHANGED <<board, queens_left, nodes_evaluated>>
    /\ UNCHANGED <<variant, size, max_depth, depth_var>>

\* What the activation does with the score of the move it made, after the
\* undo: the new locals.
AfterScoreBreakFirst(f, score) ==
    LET m == f.cur
        alpha2 == IF f.maxing THEN Max2(f.alpha, score) ELSE f.alpha
        beta2 == IF f.maxing THEN f.beta ELSE Min2(f.beta, score)
        cut == beta2 <= alpha2
        best2 == IF cut THEN f.best
                 ELSE IF f.maxing THEN Max2(f.best, score) ELSE Min2(f.best, score)
    IN  IF f.kind = "root"
        THEN [f EXCEPT !.cur = NoMove, !.idx = f.idx + 1,
                       !.scores = Append(f.scores, score),
                       !.best = IF score > f.best THEN score ELSE f.best,
                       !.best_move = IF score > f.best THEN m ELSE f.best_move]
        ELSE IF variant = "alphabeta"
        THEN [f EXCEPT !.cur = NoMove, !.best = best2, !.alpha = alpha2, !.beta = beta2,
                       !.pruned = @ \/ cut,
                       !.idx = IF cut THEN Len(f.moves) + 1 ELSE f.idx + 1]
        ELSE IF variant = "nqueens"
        THEN [f EXCEPT !.cur = NoMove, !.best = best2, !.alpha = alpha2, !.beta = beta2,
                       !.pruned = @ \/ cut,
                       !.i = IF cut THEN m[1] + 1 ELSE m[1],
                       !.j = IF cut THEN 0 ELSE m[2] + 1]
        ELSE [f EXCEPT !.cur = NoMove,
                       !.best = IF f.maxing THEN Max2(f.best, score) ELSE Min2(f.best, score),
                       !.i = m[1], !.j = m[2] + 1]

AfterScore(f, score) ==
    LET m == f.cur
        best2 == IF f.maxing THEN Max2(f.best, score) ELSE Min2(f.best, score)
        alpha2 == IF f.maxing THEN Max2(f.alpha, score) ELSE f.alpha
        beta2 == IF f.maxing THEN f.beta ELSE Min2(f.beta, score)
    IN  IF f.kind = "root"
        THEN [f EXCEPT !.cur = NoMove, !.idx = f.idx + 1,
                       !.scores = Append(f.scores, score),
                       !.best = IF score > f.best THEN score ELSE f.best,
                       !.best_move = IF score > f.best THEN m ELSE f.best_move]
        ELSE IF variant = "alphabeta"
        THEN [f EXCEPT !.cur = NoMove, !.best = best2, !.alpha = alpha2, !.beta = beta2,
                       !.pruned = @ \/ (beta2 <= alpha2),
                       !.idx = IF beta2 <= alpha2 THEN Len(f.moves) + 1 ELSE f.idx + 1]
        ELSE IF variant = "nqueens"
        THEN [f EXCEPT !.cur = NoMove, !.best = best2, !.alpha = alpha2, !.beta = beta2,
                       !.pruned = @ \/ (beta2 <= alpha2),
                       !.i = IF beta2 <= alpha2 THEN m[1] + 1 ELSE m[1],
                       !.j = IF beta2 <= alpha2 THEN 0 ELSE m[2] + 1]
        ELSE [f EXCEPT !.cur = NoMove, !.best = best2, !.i = m[1], !.j = m[2] + 1]

\* The undo of a move made on the shared board: self.board.board[i, j] = 0
\* and, in alphabeta only, self.board.queens_left += 1.
UndoCellKeepsQueen(b, m) == b

UndoCell(b, m) == [b EXCEPT ![m] = 0]

UndoQueensLeftForgotten(v, ql) == ql

UndoQueensLeft(v, ql) == IF v = "alphabeta" THEN ql + 1 ELSE ql

\* Undo move: clear the cell (alphabeta: and increment queens_left), then
\* fold the returned score into the locals and test the pruning break.
UndoMove ==
    /\ phase = "undo"
    /\ LET f == Top
       IN  /\ board' = UndoCell(board, f.cur)
           /\ queens_left' = UndoQueensLeft(variant, queens_left)
           /\ stack' = [stack EXCEPT ![Len(stack)] = AfterScore(f, ret)]
           /\ last' = [Event("undo_move") EXCEPT !.cell = f.cur, !.value = ret]
    /\ phase' = "apply"
    /\ UNCHANGED <<variant, size, max_depth, ret, depth_var, nodes_evaluated>>

\* ------------------------------------------------------------ GUI handlers
\* NQueensGUI.on_board_click on cell (row, col), make_ai_move included.  A
\* click that is not accepted changes nothing; an accepted one places the
\* queen and, unless that ends the game, calls get_best_move: the handler
\* ends here when that returns None at once, and in Return otherwise.
ClickAcceptedNoSafetyTest(v, b, n, ql, row, col) ==
    /\ ~IsGameOver(v, b, n, ql)
    /\ ql > 0
    /\ b[<<row, col>>] = 0

ClickAccepted(v, b, n, ql, row, col) ==
    /\ ~IsGameOver(v, b, n, ql)
    /\ ql > 0
    /\ b[<<row, col>>] = 0
    /\ IsSafe(b, n, row, col)

OnBoardClick(row, col) ==
    /\ phase = "idle"
    /\ LET ev == [Event("on_board_click") EXCEPT
                    !.cell = <<row, col>>, !.gbm_calls = 0, !.ai_placed = 0]
       IN  IF ~ClickAccepted(variant, board, size, queens_left, row, col)
           THEN /\ last' = [ev EXCEPT !.click = "rejected"]
                /\ UNCHANGED <<board, queens_left, stack, phase, nodes_evaluated>>
           ELSE LET p == PlaceQueenResult(board, size, queens_left, row, col)
                    placed == [ev EXCEPT !.ok = p.ok,
                                         !.placed = IF p.ok THEN @ + 1 ELSE @]
                IN  /\ board' = p.board
                    /\ queens_left' = p.queens_left
                    /\ IF IsGameOver(variant, p.board, size, p.queens_left)
                       THEN /\ last' = [placed EXCEPT !.click = "completing"]
                            /\ UNCHANGED <<stack, phase, nodes_evaluated>>
                       ELSE CallGetBestMove(
                                [origin |-> "click", cell |-> <<row, col>>, ok |-> p.ok,
                                 pre_board |-> board, pre_ql |-> queens_left],
                                p.board, p.queens_left,
                                [placed EXCEPT !.click = "accepted"])
    /\ UNCHANGED <<variant, size, max_depth, ret, depth_var>>

\* NQueensGUI.show_hint (alphabeta only): nothing when the game is over,
\* else one get_best_move call whose move is highlighted, not placed.
\* At most MaxHints hints are taken between two clicks, which bounds
\* gbm_calls.
ShowHint ==
    /\ phase = "idle"
    /\ variant = "alphabeta"
    /\ last.gbm_calls - (IF last.click = "accepted" THEN 1 ELSE 0) < MaxHints
    /\ IF IsGameOver(variant, board, size, queens_left)
       THEN /\ last' = Event("show_hint")
            /\ UNCHANGED <<stack, phase, nodes_evaluated>>
       ELSE CallGetBestMove([NoCtx EXCEPT !.origin = "hint"],
                            board, queens_left, Event("get_best_move"))
    /\ UNCHANGED <<variant, size, board, queens_left, max_depth, ret, depth_var>>

\* NQueensGUI.reset_game: the size dialog answered new_size (NoSize: it was
\* cancelled, nothing happens); board.reset(new_size), then a new engine
\* built with its default arguments.  depth_var is left as it is.
ResetGame(new_size) ==
    /\ phase = "idle"
    /\ IF new_size = NoSize
       THEN /\ last' = Event("reset_game_cancelled")
            /\ UNCHANGED <<size, board, queens_left, max_depth, nodes_evaluated>>
       ELSE /\ size' = new_size
            /\ board' = Zeros(new_size)
            /\ queens_left' = new_size
            /\ max_depth' = DefaultDepth
            /\ nodes_evaluated' = 0
            /\ last' = [EventRec("reset_game", 0, "none", 0, 0) EXCEPT
                          !.arg = new_size, !.pre_size = size,
                          !.pre_board = board', !.pre_ql = queens_left']
    /\ UNCHANGED <<variant, stack, phase, ret, depth_var>>

\* ---------------------------------------------------------- specification
\* The Board and engine classes driven call by call.  Each get_best_move
\* here is made on an engine as its constructor leaves it,
\* AlphaBetaAI(board).get_best_move(), so no statistics are kept from one
\* call to the next; the engine that lives across calls is SpecGui's.
\* ResetGame stands here for its two calls, board.reset(s) and
\* AlphaBetaAI(board), on any size.
Next ==
    \/ \E s \in (1 .. MaxSize) \cup {NoSize} : Reset(s)
    \/ \E r \in Range(size) : \E c \in Range(size) : PlaceQueen(r, c)
    \/ EvaluateCall
    \/ IsGameOverCall
    \/ \E s \in 1 .. MaxSize : ResetGame(s)
    \/ GetBestMove
    \/ MakeMove
    \/ Return
    \/ UndoMove

Spec == Init /\ [][Next]_vars

\* The two GUI programs: src/alphabeta/gui.py on the alphabeta engine and
\* src/nqueens/gui.py on the nqueens engine, driven by their handlers.  A
\* handler runs to its end before the next event is taken: the handlers are
\* enabled between searches only.  The size dialog offers GuiMinSize and up.
InitGui ==
    /\ variant \in {"alphabeta", "nqueens"}
    /\ size \in GuiMinSize .. MaxSize
    /\ board = Zeros(size)
    /\ queens_left = size
    /\ max_depth = DefaultDepth
    /\ stack = <<>>
    /\ phase = "idle"
    /\ ret = 0
    /\ last = EventRec("init", 0, "none", 0, 0)
    /\ depth_var = InitialDepthVar
    /\ nodes_evaluated = 0

NextGui ==
    \/ \E r \in Range(size) : \E c \in Range(size) : OnBoardClick(r, c)
    \/ ShowHint
    \/ \E d \in 1 .. MaxDepth : UpdateAiDepth(d)
    \/ \E s \in (GuiMinSize .. MaxSize) \cup {NoSize} : ResetGame(s)
    \/ MakeMove
    \/ Return
    \/ UndoMove

SpecGui == InitGui /\ [][NextGui]_vars

\* Inputs of the pure Board queries: a grid of any content, attacking queens
\* included, holding at most MaxGridQueens queens.
InitGrid ==
    /\ variant = "alphabeta"
    /\ size \in 1 .. MaxGridSize
    /\ board \in {b \in [Cells(size) -> {0, 1}] : Sum(b, size) <= MaxGridQueens}
    /\ queens_left = size - Sum(board, size)
    /\ max_depth = DefaultDepth
    /\ stack = <<>>
    /\ phase = "idle"
    /\ ret = 0
    /\ last = EventRec("init", 0, "none", 0, 0)
    /\ depth_var = InitialDepthVar
    /\ nodes_evaluated = 0

NextGrid ==
    \/ \E r \in Range(size) : \E c \in Range(size) : IsSafeCall(r, c)
    \/ GetSafePositionsCall

SpecGrid == InitGrid /\ [][NextGrid]_vars

\* Boards of every size up to MaxBoardSize, empty or with a queen in the
\* corner, for the range of the constructive evaluate().
InitBoard ==
    /\ variant = "alphabeta"
    /\ size \in 1 .. MaxBoardSize
    /\ board = Zeros(size)
    /\ queens_left = size
    /\ max_depth = DefaultDepth
    /\ stack = <<>>
    /\ phase = "idle"
    /\ ret = 0
    /\ last = EventRec("init", 0, "none", 0, 0)
    /\ depth_var = InitialDepthVar
    /\ nodes_evaluated = 0

NextBoard ==
    \/ PlaceQueen(0, 0)
    \/ EvaluateCall

SpecBoard == InitBoard /\ [][NextBoard]_vars

\* ------------------------------------------------- unpruned reference search
\* MinimaxAI.minimax of src/minimax/minimax.py as a function of the board:
\* no window, every safe cell tried.  With v = "alphabeta" it is the same
\* recursion over alphabeta's terminal test and evaluation.
SetMax(S) == CHOOSE x \in S : \A y \in S : y <= x
SetMin(S) == CHOOSE x \in S : \A y \in S : x <= y

RECURSIVE Minimax(_, _, _, _, _, _)
Minimax(v, b, n, ql, depth, maxing) ==
    IF IsTerminal(v, b, n, ql, depth) THEN Evaluate(v, b, n, ql)
    ELSE LET moves == GetSafePositions(b, n)
             ql2 == IF v = "alphabeta" THEN ql - 1 ELSE ql
             evals == {Minimax(v, [b EXCEPT ![moves[k]] = 1], n, ql2, depth - 1, ~maxing) :
                          k \in 1 .. Len(moves)}
         IN  IF maxing THEN SetMax(evals \cup {NegInf}) ELSE SetMin(evals \cup {PosInf})

\* The loop of get_best_move over valid_moves: keep the first strictly
\* greater score.
RECURSIVE PickBest(_, _, _, _, _)
PickBest(moves, scores, k, best_score, best_move) ==
    IF k > Len(moves) THEN best_move
    ELSE IF scores[k] > best_score
    THEN PickBest(moves, scores, k + 1, scores[k], moves[k])
    ELSE PickBest(moves, scores, k + 1, best_score, best_move)

\* MinimaxAI.get_best_move of src/minimax/minimax.py as a function of the board.
MinimaxBestMove(v, b, n, ql, depth) ==
    LET moves == GetSafePositions(b, n)
        ql2 == IF v = "alphabeta" THEN ql - 1 ELSE ql
        scores == [k \in 1 .. Len(moves) |->
                      Minimax(v, [b EXCEPT ![moves[k]] = 1], n, ql2, depth, FALSE)]
    IN  PickBest(moves, scores, 1, NegInf, NoMove)

\* ------------------------------------------------------------------ claims
Abs(x) == IF x < 0 THEN -x ELSE x
Queens(b, n) == {c \in Cells(n) : b[c] = 1}
Attacks(p, q) == p[1] = q[1] \/ p[2] = q[2] \/ Abs(p[1] - q[1]) = Abs(p[2] - q[2])
InSearch == phase # "idle"
RowMajorBefore(p, q) == p[1] < q[1] \/ (p[1] = q[1] /\ p[2] < q[2])

\* C1: in every reachable state, the states between a search's make-move and
\* undo-move included, no two queens on the grid share a row, a column or a
\* diagonal.
C1_NoTwoQueensAttack ==
    \A p \in Queens(board, size) : \A q \in Queens(board, size) :
        p # q => ~Attacks(p, q)

\* Inside a search, three plies deep, with three queens on the grid.
C1_Witness ==
    /\ InSearch
    /\ Len(stack) >= 3
    /\ Cardinality(Queens(board, size)) >= 3

\* C2: when a search call or get_best_move returns, the grid and queens_left
\* are what they were when the call started, also when a pruning break cut
\* a loop short.
C2_SearchRestoresBoard ==
    last.op \in {"search", "get_best_move"} =>
        /\ board = last.pre_board
        /\ queens_left = last.pre_ql

\* A search call that took a pruning break has returned.
C2_Witness ==
    /\ last.op = "search"
    /\ last.pruned
    /\ Cardinality(Queens(board, size)) >= 1

\* C3: queens_left equals size minus the number of occupied cells in every
\* reachable state of every variant, the steps of a search included.
C3_QueensLeftMatchesGrid ==
    queens_left = size - Sum(board, size)

\* C4: get_best_move returns no move exactly when the board has no safe
\* position, and otherwise returns a cell that is safe.
C4_NoMoveIffNoSafePosition ==
    last.op = "get_best_move" =>
        /\ (last.move = NoMove) <=> (GetSafePositions(board, size) = <<>>)
        /\ last.move # NoMove => IsSafe(board, size, last.move[1], last.move[2])

\* C5: when safe positions exist, get_best_move returns the row-major
\* earliest candidate among those whose search score is maximal.
C5_FirstMaximalCandidate ==
    (last.op = "get_best_move" /\ GetSafePositions(board, size) # <<>>) =>
        \E k \in 1 .. Len(last.moves) :
            /\ last.move = last.moves[k]
            /\ \A k2 \in 1 .. Len(last.moves) : last.scores[k2] <= last.scores[k]
            /\ \A k2 \in 1 .. (k - 1) : last.scores[k2] < last.scores[k]

\* C6: a pruned search started with the full window returns the score of the
\* unpruned minimax on the same board and depth, and get_best_move chooses
\* the move the unpruned get_best_move chooses.
C6_PrunedEqualsUnpruned ==
    /\ (last.op = "search" /\ last.alpha0 = NegInf /\ last.beta0 = PosInf) =>
           last.value = Minimax(variant, board, size, queens_left, last.depth, last.maxing)
    /\ last.op = "get_best_move" =>
           last.move = MinimaxBestMove(variant, board, size, queens_left, RootDepth)

\* A full-window search of the pruned nqueens engine that took a break has
\* returned.
C6_Witness ==
    /\ last.op = "search"
    /\ last.alpha0 = NegInf /\ last.beta0 = PosInf
    /\ last.pruned
    /\ variant = "nqueens"
    /\ last.depth >= 2

\* C7: place_queen on a safe cell sets exactly that cell, decrements
\* queens_left and returns true; on any other cell it returns false and
\* changes nothing, and the same placement is rejected again.
C7_PlaceQueenContract ==
    last.op = "place_queen" =>
        IF IsSafe(last.pre_board, last.pre_size, last.cell[1], last.cell[2])
        THEN /\ last.ok
             /\ board[last.cell] = 1
             /\ \A c \in Cells(size) \ {last.cell} : board[c] = last.pre_board[c]
             /\ queens_left = last.pre_ql - 1
        ELSE /\ ~last.ok
             /\ board = last.pre_board
             /\ queens_left = last.pre_ql
             /\ ~IsSafe(board, size, last.cell[1], last.cell[2])

\* A placement on an empty but attacked cell was rejected.
C7_Witness ==
    /\ last.op = "place_queen"
    /\ ~last.ok
    /\ board[last.cell] = 0

\* C8: is_safe(r, c) is true exactly when the cell is empty and no queen
\* shares its row, its column or a diagonal (|dr| = |dc|); the code's two
\* diagonal tests together say |dr| = |dc|.
C8_IsSafeMatchesDefinition ==
    /\ last.op = "is_safe" =>
           (last.ok <=> /\ board[last.cell] = 0
                        /\ \A q \in Queens(board, size) : ~Attacks(last.cell, q))
    /\ \A p \in Cells(size) : \A q \in Cells(size) :
           ((p[1] + p[2] = q[1] + q[2]) \/ (p[1] - p[2] = q[1] - q[2]))
               <=> (Abs(p[1] - q[1]) = Abs(p[2] - q[2]))

\* is_safe answered false for an empty cell attacked along a diagonal only.
C8_Witness ==
    /\ last.op = "is_safe"
    /\ ~last.ok
    /\ board[last.cell] = 0
    /\ \A q \in Queens(board, size) : q[1] # last.cell[1] /\ q[2] # last.cell[2]

\* C9: get_safe_positions returns exactly the empty cells for which is_safe
\* holds, each once, in strictly ascending row-major order; all n*n cells
\* of an empty board.
C9_SafePositionsRowMajor ==
    last.op = "get_safe_positions" =>
        /\ {last.moves[k] : k \in 1 .. Len(last.moves)}
             = {c \in Cells(size) : board[c] = 0 /\ IsSafe(board, size, c[1], c[2])}
        /\ \A k \in 1 .. (Len(last.moves) - 1) :
             RowMajorBefore(last.moves[k], last.moves[k + 1])
        /\ board = Zeros(size) => Len(last.moves) = size * size

\* get_safe_positions returned several cells of several rows, on a board
\* that holds a queen.
C9_Witness ==
    /\ last.op = "get_safe_positions"
    /\ Len(last.moves) >= 2
    /\ last.moves[1][1] # last.moves[Len(last.moves)][1]
    /\ Queens(board, size) # {}

\* C10: the constructive evaluate() returns 1000 when queens_left is 0,
\* else -1000 when no safe position remains, else 10 * (size - queens_left)
\* plus the number of safe positions, and changes neither grid nor
\* queens_left.
C10_ConstructiveEvaluate ==
    (last.op = "evaluate" /\ variant = "alphabeta") =>
        LET safe == {c \in Cells(size) : IsSafe(board, size, c[1], c[2])}
        IN  /\ last.value = IF queens_left = 0 THEN 1000
                            ELSE IF safe = {} THEN -1000
                            ELSE 10 * (size - queens_left) + Cardinality(safe)
            /\ board = last.pre_board
            /\ queens_left = last.pre_ql

\* evaluate() was called on a dead end: queens left to place, no safe cell.
C10_Witness ==
    /\ last.op = "evaluate"
    /\ variant = "alphabeta"
    /\ queens_left > 0
    /\ last.value = -1000

\* C11: whenever queens_left is 0 no cell is safe: is_game_over() is true,
\* the constructive evaluate() returns 1000, get_best_move returns no move
\* and place_queen fails; queens_left is never negative and the grid never
\* holds more than size queens.
NoSafeCell(b, n) == \A c \in Cells(n) : ~IsSafe(b, n, c[1], c[2])

C11_NoQueensLeftIsFinal ==
    /\ queens_left >= 0
    /\ Sum(board, size) <= size
    /\ queens_left = 0 =>
          /\ NoSafeCell(board, size)
          /\ GetSafePositions(board, size) = <<>>
          /\ IsGameOver(variant, board, size, queens_left)
          /\ variant = "alphabeta" =>
                 EvaluateAB(board, size, queens_left) = SolvedScore
          /\ last.op = "is_game_over" => last.ok
          /\ last.op = "evaluate" /\ variant = "alphabeta" => last.value = SolvedScore
          /\ last.op = "get_best_move" => last.move = NoMove
          /\ last.op = "place_queen" /\ last.pre_ql = 0 =>
                 ~last.ok /\ board = last.pre_board

C11_Witness ==
    /\ variant = "alphabeta"
    /\ size = 4
    /\ queens_left = 0
    /\ last.op = "place_queen"
    /\ last.pre_ql = 0
    /\ ~last.ok

\* C12: in every state reached by place_queen, reset and completed
\* get_best_move calls, queens_left is 0 exactly when the grid holds size
\* queens, so the two definitions of is_game_over() give the same answer,
\* which is the answer the call returns.
C12_GameOverDefinitionsAgree ==
    phase = "idle" =>
        /\ IsGameOverAB(queens_left) <=> IsGameOverMM(board, size)
        /\ last.op = "is_game_over" =>
               /\ last.ok <=> queens_left = 0
               /\ last.ok <=> Cardinality(Queens(board, size)) = size

C12_Witness ==
    /\ last.op = "is_game_over"
    /\ last.ok
    /\ size = 4
    /\ last.placed = 4

\* C13: after reset(new_size) size is new_size, the grid is new_size by
\* new_size and empty and queens_left is new_size; after reset() size is
\* unchanged, the grid empty and queens_left equals size; a get_best_move
\* that follows reset_game searches the reset grid.
C13_ResetState ==
    last.op \in {"reset", "reset_game"} =>
        /\ size = (IF last.arg = NoSize THEN last.pre_size ELSE last.arg)
        /\ DOMAIN board = Cells(size)
        /\ \A c \in Cells(size) : board[c] = 0
        /\ queens_left = size

C13_EngineStep ==
    last.op = "reset_game" /\ last'.op = "get_best_move_start" =>
        /\ Top'.snap = Zeros(last.arg)
        /\ Len(Top'.moves) = last.arg * last.arg
        /\ \A k \in 1 .. Len(Top'.moves) : Top'.moves[k] \in Cells(last.arg)

C13_ResetThenSearch == []C13_ResetState /\ [][C13_EngineStep]_vars

C13_Witness ==
    /\ last.op = "reset"
    /\ last.arg # NoSize
    /\ last.arg # last.pre_size
    /\ size = last.arg

\* C14: in every variant a search call with depth 0, or on a board where
\* the game is over, or on a board with no safe position, returns
\* board.evaluate() of that board, never the -infinity / +infinity its loop
\* starts from.
SearchCallReturned == (last.op = "make_move" /\ last.ok) \/ last.op = "search"

C14_TerminalNodeReturnsEvaluate ==
    /\ SearchCallReturned
    /\ \/ last.depth = 0
       \/ IsGameOver(variant, board, size, queens_left)
       \/ GetSafePositions(board, size) = <<>>
    => /\ last.value = Evaluate(variant, board, size, queens_left)
       /\ last.value \notin {NegInf, PosInf}

\* C17: when AlphaBetaAI.get_best_move returns, the nodes_evaluated it
\* reports is exactly the number of alpha_beta_search calls made during
\* that call, whatever the counter held before, and 0 when the board has
\* no safe position.
GetBestMoveReturned ==
    \/ last.op = "get_best_move"
    \/ last.op = "on_board_click" /\ last.click = "accepted"

C17_NodesCountSearchCalls ==
    variant = "alphabeta" /\ GetBestMoveReturned =>
        /\ last.nodes = last.calls
        /\ nodes_evaluated = last.nodes
        /\ last.moves = <<>> => last.nodes = 0

C17_Witness ==
    /\ variant = "alphabeta"
    /\ last.op = "get_best_move"
    /\ last.gbm_calls = 2
    /\ last.ai_placed = 1
    /\ last.calls > 1

\* C18: in the two minimax variants the conflict-counting evaluate() is 0
\* on every board the search visits and on every board built by
\* place_queen, so every score get_best_move compares is 0 or an infinity
\* sentinel and any two finite scores are equal.
C18_ConflictEvaluateIsZero ==
    variant # "alphabeta" =>
        /\ EvaluateMM(board, size) = 0
        /\ last.op = "evaluate" => last.value = 0
        /\ last.op = "make_move" /\ last.ok => last.value = 0
        /\ last.op = "search" => last.value \in {0, NegInf, PosInf}
        /\ last.op = "get_best_move" =>
               \A k \in 1 .. Len(last.scores) : last.scores[k] \in {0, NegInf, PosInf}

C18_Witness ==
    /\ variant # "alphabeta"
    /\ size = 4
    /\ last.op = "get_best_move"
    /\ \E k \in 1 .. Len(last.scores) : last.scores[k] = 0
    /\ \E k \in 1 .. Len(last.scores) : last.scores[k] \in {NegInf, PosInf}

\* C19: in the alpha-beta GUI, after any depth changes and game resets, the
\* max_depth the engine uses for the next get_best_move is the depth
\* selected by the depth control.
C19_EngineDepthFollowsControl ==
    variant = "alphabeta" =>
        /\ max_depth = depth_var
        /\ phase # "idle" => stack[1].depth = depth_var

GameEnded(v, b, n, ql) == IsGameOver(v, b, n, ql) \/ GetSafePositions(b, n) = <<>>

C16_GameEndsWithinSizePlacements ==
    /\ last.placed <= size
    /\ phase = "idle" =>
          /\ last.placed = Cardinality(Queens(board, size))
          /\ last.placed = size - queens_left
          /\ last.placed = size => IsGameOver(variant, board, size, queens_left)
    /\ /\ last.op \in {"on_board_click", "get_best_move", "show_hint",
                       "update_ai_depth", "reset_game_cancelled"}
       /\ \/ board # last.pre_board
          \/ queens_left # last.pre_ql
          \/ last.op = "on_board_click" /\ last.click # "rejected"
       => ~GameEnded(variant, last.pre_board, size, last.pre_ql)
    /\ last.op = "get_best_move_start" =>
          /\ ~GameEnded(variant, stack[1].snap, size, stack[1].snap_ql)
          /\ stack[1].ctx.origin = "click" =>
                 ~GameEnded(variant, stack[1].ctx.pre_board, size, stack[1].ctx.pre_ql)

C16_Witness ==
    /\ last.op = "on_board_click"
    /\ last.click = "rejected"
    /\ last.placed < size
    /\ ~IsGameOver(variant, board, size, queens_left)
    /\ GetSafePositions(board, size) = <<>>

\* C20: for every positive board size and every board with queens_left > 0
\* the constructive evaluate() is below the solved score 1000 and not below
\* the dead-end score -1000.
C20_UnsolvedScoresBelowSolved ==
    last.op = "evaluate" /\ queens_left > 0 =>
        /\ last.value < SolvedScore
        /\ last.value >= DeadEndScore

====
